---- MODULE Spec2Model ----
(***************************************************************************)
(* Model of the stock selector (src/stock_selector.py): the recursive      *)
(* smoother sma, the KDJ and MACD calculators, analyze_stock and the batch *)
(* loop of run_stock_selection; and of the scan service (src/scan0202.py): *)
(* POST /scan, the background thread run_nmap_scan and GET /scan/status.   *)
(*                                                                         *)
(* Number representation.  The program computes in float64 with NaN as the *)
(* "undefined" value.  Here every number is an integer and NaN is the      *)
(* reserved value NaN:                                                     *)
(*   - price columns (open, high, low, close) are in hundredths (PX per    *)
(*     currency unit), volume is in shares, amount in currency units;      *)
(*   - the recursively smoothed values (RSV, K, D, J, the EMAs, DIF) are   *)
(*     fixed point with FIX units per 1; a float division is the floor     *)
(*     division of the scaled operands;                                    *)
(*   - a rolling mean is carried as its window sum, and a comparison       *)
(*     against a mean or against a decimal factor (1.5, 1.8, 0.55 ...) is  *)
(*     cross-multiplied, so it is exact.                                   *)
(* Arithmetic on NaN gives NaN; every ordering comparison with NaN is      *)
(* false and NaN != x is true, as in IEEE-754 / pandas.                    *)
(* Where the rounding of a float operation itself is in question, sma is   *)
(* also modelled in binary floating point (smaFloat, SpecSmaFloat).        *)
(***************************************************************************)
EXTENDS Integers, Sequences, FiniteSets, TLC

VARIABLES
    smaX, smaN, smaM, smaR,        \* sma under test: input, n, m, result
    anaIn, anaFrame, anaResult,    \* analyze_stock under test: the Series'
                                   \* parameters, the frame, the result
    pc,                \* run_stock_selection: where the run is
    provider,          \* the market-data provider's snapshot (environment)
    excel_files,       \* the stock codes of the files found by glob
    spot_dict,         \* code -> circulating market cap (hundred millions)
    visited,           \* number of files the loop has taken
    selected_stocks,   \* results appended at line 334
    failed_stocks,     \* codes appended at line 352
    console,           \* per file: what was read and what the loop printed
    report,            \* the rows written to output_file, NoReport if none
    scanNow,           \* scan service: the clock, in seconds
    scanThreads,       \* the background threads started by POST /scan
    xml_files,         \* task ids with a <task_id>.xml in SCAN_RESULTS_DIR
    done_files,        \* task ids with a <task_id>.txt holding "done"
    scanAccepted,      \* task ids returned to a client by POST /scan
    scanReply          \* the last HTTP response of the service

smaVars == <<smaX, smaN, smaM, smaR>>
anaVars == <<anaIn, anaFrame, anaResult>>
runVars == <<pc, provider, excel_files, spot_dict, visited, selected_stocks,
             failed_stocks, console, report>>
scanVars == <<scanNow, scanThreads, xml_files, done_files, scanAccepted, scanReply>>
vars == <<smaVars, anaVars, runVars, scanVars>>

\* the variables of a part of the program that a specification does not run
SmaIdle == smaX = <<>> /\ smaN = 0 /\ smaM = 0 /\ smaR = <<>>
AnaIdle == anaIn = [idle |-> TRUE] /\ anaFrame = [idle |-> TRUE]
           /\ anaResult = [idle |-> TRUE]
RunIdle == /\ pc = "idle" /\ provider = [idle |-> TRUE] /\ excel_files = <<>>
           /\ spot_dict = <<>> /\ visited = 0 /\ selected_stocks = <<>>
           /\ failed_stocks = <<>> /\ console = <<>> /\ report = <<>>
ScanIdle == /\ scanNow = 0 /\ scanThreads = <<>> /\ xml_files = {}
            /\ done_files = {} /\ scanAccepted = {} /\ scanReply = [idle |-> TRUE]


\* ------------------------------------------------------------------------
\* Numbers
\* ------------------------------------------------------------------------
NaN == -2000000000
FIX == 1000
PX == 100

isna(x) == x = NaN

Add(a, b) == IF isna(a) \/ isna(b) THEN NaN ELSE a + b
Sub(a, b) == IF isna(a) \/ isna(b) THEN NaN ELSE a - b
Mul(a, b) == IF isna(a) \/ isna(b) THEN NaN ELSE a * b
Div(a, b) == IF isna(a) \/ isna(b) THEN NaN ELSE a \div b

Lt(a, b) == ~isna(a) /\ ~isna(b) /\ a < b
Le(a, b) == ~isna(a) /\ ~isna(b) /\ a <= b
Gt(a, b) == ~isna(a) /\ ~isna(b) /\ a > b
Ge(a, b) == ~isna(a) /\ ~isna(b) /\ a >= b
Eq(a, b) == ~isna(a) /\ ~isna(b) /\ a = b
Ne(a, b) == ~Eq(a, b)

\* ------------------------------------------------------------------------
\* sma(series, n, m): result[0] = series[0]; then left to right
\* ------------------------------------------------------------------------
\* smaStep with the two weights exchanged
smaStepSwapped(series, n, m, result) ==
    LET i == Len(result) + 1
    IN  Append(result,
            IF isna(result[i - 1])
            THEN series[i]
            ELSE Div(Add(Mul(n - m, series[i]), Mul(m, result[i - 1])), n))

\* smaStep that stays undefined after an undefined previous value
smaStepNoReseed(series, n, m, result) ==
    LET i == Len(result) + 1
    IN  Append(result,
            Div(Add(Mul(m, series[i]), Mul(n - m, result[i - 1])), n))

\* one pass of the loop body: result[i] for i = len(result)
smaStep(series, n, m, result) ==
    LET i == Len(result) + 1
    IN  Append(result,
            IF isna(result[i - 1])
            THEN series[i]
            ELSE Div(Add(Mul(m, series[i]), Mul(n - m, result[i - 1])), n))

\* the loop "for i in range(1, len(series))" up to position hi, in index
\* order (the range is split in halves to keep the evaluation shallow)
RECURSIVE smaLoop(_, _, _, _, _)
smaLoop(series, n, m, result, hi) ==
    LET done == Len(result)
    IN  IF done >= hi THEN result
        ELSE IF hi = done + 1 THEN smaStep(series, n, m, result)
        ELSE smaLoop(series, n, m,
                 smaLoop(series, n, m, result, (done + hi) \div 2), hi)

\* sma seeded with the last value of the input instead of the first
smaSeedLast(series, n, m) ==
    smaLoop(series, n, m, <<series[Len(series)]>>, Len(series))

sma(series, n, m) == smaLoop(series, n, m, <<series[1]>>, Len(series))

\* ------------------------------------------------------------------------
\* pandas helpers: columns are sequences indexed 1..n (bar i of the program
\* is position i + 1); "\o <<>>" makes a built column a plain tuple
\* ------------------------------------------------------------------------
Tab(n, F(_)) == [i \in 1..n |-> F(i)] \o <<>>

shift(xs) == Tab(Len(xs), LAMBDA i : IF i = 1 THEN NaN ELSE xs[i - 1])

\* the sum, minimum and maximum of xs[lo..hi], NaN if any of them is NaN
\* (the window is split in halves to keep the evaluation shallow)
Min2(a, b) == IF isna(a) \/ isna(b) THEN NaN ELSE IF a < b THEN a ELSE b
Max2(a, b) == IF isna(a) \/ isna(b) THEN NaN ELSE IF a > b THEN a ELSE b

RECURSIVE WinSum(_, _, _)
WinSum(xs, lo, hi) ==
    IF lo > hi THEN 0
    ELSE IF lo = hi THEN xs[lo]
    ELSE LET mid == (lo + hi) \div 2
         IN  Add(WinSum(xs, lo, mid), WinSum(xs, mid + 1, hi))

RECURSIVE WinMin(_, _, _)
WinMin(xs, lo, hi) ==
    IF lo = hi THEN xs[lo]
    ELSE LET mid == (lo + hi) \div 2
         IN  Min2(WinMin(xs, lo, mid), WinMin(xs, mid + 1, hi))

RECURSIVE WinMax(_, _, _)
WinMax(xs, lo, hi) ==
    IF lo = hi THEN xs[lo]
    ELSE LET mid == (lo + hi) \div 2
         IN  Max2(WinMax(xs, lo, mid), WinMax(xs, mid + 1, hi))

\* rolling(window=w) with the default min_periods = w: undefined until the
\* window is full
rolling_sum(xs, w) ==
    Tab(Len(xs), LAMBDA i : IF i < w THEN NaN ELSE WinSum(xs, i - w + 1, i))
rolling_min(xs, w) ==
    Tab(Len(xs), LAMBDA i : IF i < w THEN NaN ELSE WinMin(xs, i - w + 1, i))
rolling_max(xs, w) ==
    Tab(Len(xs), LAMBDA i : IF i < w THEN NaN ELSE WinMax(xs, i - w + 1, i))

\* a boolean column as 0/1, and VOL * <boolean column>
Num(bs) == Tab(Len(bs), LAMBDA i : IF bs[i] THEN 1 ELSE 0)
Masked(xs, bs) == Tab(Len(xs), LAMBDA i : Mul(xs[i], IF bs[i] THEN 1 ELSE 0))

\* a > (num/den) * b and a >= (num/den) * b, cross-multiplied
GtTimes(a, num, den, b) == Gt(Mul(a, den), Mul(num, b))
GeTimes(a, num, den, b) == Ge(Mul(a, den), Mul(num, b))

\* Series.ewm(span=span, adjust=False).mean() on fixed-point values without
\* missing cells: y[0] = x[0], y[t] = (2 x[t] + (span - 1) y[t-1]) / (span + 1)
ewmStep(xs, span, ys) ==
    LET i == Len(ys) + 1
    IN  Append(ys, Div(Add(Mul(2, xs[i]), Mul(span - 1, ys[i - 1])), span + 1))

RECURSIVE ewmLoop(_, _, _, _)
ewmLoop(xs, span, ys, hi) ==
    LET done == Len(ys)
    IN  IF done >= hi THEN ys
        ELSE IF hi = done + 1 THEN ewmStep(xs, span, ys)
        ELSE ewmLoop(xs, span, ewmLoop(xs, span, ys, (done + hi) \div 2), hi)

ewm_mean(xs, span) == ewmLoop(xs, span, <<xs[1]>>, Len(xs))

\* DataFrame.sort_values('date') for rows with distinct dates: the row at
\* position i is the one with i - 1 rows of smaller date
sort_values(rows) ==
    LET n == Len(rows)
        rank(k) == 1 + Cardinality({j \in 1..n : rows[j].date < rows[k].date})
    IN  Tab(n, LAMBDA i : rows[CHOOSE k \in 1..n : rank(k) = i])

Column(rows, name) == Tab(Len(rows), LAMBDA i : rows[i][name])

\* ------------------------------------------------------------------------
\* calculate_kdj
\* ------------------------------------------------------------------------
\* rsv_of with the mask den > 0, which is false while den is undefined
rsv_of_gt(low, high, close) ==
    LET low_9 == rolling_min(low, 9)
        high_9 == rolling_max(high, 9)
        den == Tab(Len(close), LAMBDA i : Sub(high_9[i], low_9[i]))
    IN  Tab(Len(close), LAMBDA i :
            IF Gt(den[i], 0)
            THEN Div(Mul(Sub(close[i], low_9[i]), 100 * FIX), den[i])
            ELSE 50 * FIX)

\* rsv: 50 everywhere, then overwritten where den != 0
rsv_of(low, high, close) ==
    LET low_9 == rolling_min(low, 9)
        high_9 == rolling_max(high, 9)
        den == Tab(Len(close), LAMBDA i : Sub(high_9[i], low_9[i]))
    IN  Tab(Len(close), LAMBDA i :
            IF Ne(den[i], 0)
            THEN Div(Mul(Sub(close[i], low_9[i]), 100 * FIX), den[i])
            ELSE 50 * FIX)

calculate_kdj(low, high, close) ==
    LET rsv == rsv_of(low, high, close)
        k == sma(rsv, 3, 1)
        d == sma(k, 3, 1)
        j == Tab(Len(close), LAMBDA i : Sub(Mul(3, k[i]), Mul(2, d[i])))
    IN  [rsv |-> rsv, k |-> k, d |-> d, j |-> j]

\* ------------------------------------------------------------------------
\* calculate_macd (fast = 12, slow = 26, signal = 9)
\* ------------------------------------------------------------------------
calculate_macd(close, fast, slow, signal) ==
    LET c == Tab(Len(close), LAMBDA i : Mul(close[i], FIX))
        ema_fast == ewm_mean(c, fast)
        ema_slow == ewm_mean(c, slow)
        dif == Tab(Len(close), LAMBDA i : Sub(ema_fast[i], ema_slow[i]))
        dea == ewm_mean(dif, signal)
    IN  [dif |-> dif, dea |-> dea,
         macd |-> Tab(Len(close), LAMBDA i : Mul(Sub(dif[i], dea[i]), 2))]

\* ------------------------------------------------------------------------
\* analyze_stock.  A DataFrame is [columns |-> set of names, rows |-> rows];
\* a row is a record with the fields date, open, high, low, close, volume,
\* amount (amount is read only when "amount" is a column).
\* ------------------------------------------------------------------------
MinBars == 60
None == [none |-> TRUE]

\* the columns analyze_stock adds to df, after the sort
indicator_frame(df) ==
    LET rows == sort_values(df.rows)
        n == Len(rows)
        H == Column(rows, "high")
        L == Column(rows, "low")
        C == Column(rows, "close")
        O == Column(rows, "open")
        VOL == Column(rows, "volume")
        AMOUNT == IF "amount" \in df.columns
                  THEN Column(rows, "amount")
                  ELSE Tab(n, LAMBDA i : Div(Mul(VOL[i], C[i]), PX))
        REF_C_1 == shift(C)
        REF_VOL_1 == shift(VOL)
        kdj == calculate_kdj(L, H, C)
        j_ok == Tab(n, LAMBDA i : Le(kdj.j[i], 13 * FIX))
        real_yang == Tab(n, LAMBDA i : Gt(C[i], O[i]) /\ ~Lt(C[i], REF_C_1[i]))
        real_yin == Tab(n, LAMBDA i : Lt(C[i], O[i]) /\ ~Gt(C[i], REF_C_1[i]))
        fake_yang == Tab(n, LAMBDA i : ~Lt(C[i], REF_C_1[i]))
        fake_yin == Tab(n, LAMBDA i : ~Gt(C[i], REF_C_1[i]))
        VOL_YANG21 == rolling_sum(Masked(VOL, real_yang), 21)
        VOL_YIN21 == rolling_sum(Masked(VOL, real_yin), 21)
        VOL_YANG14 == rolling_sum(Masked(VOL, real_yang), 14)
        VOL_YIN14 == rolling_sum(Masked(VOL, real_yin), 14)
        VOL_FAKEYANG21 == rolling_sum(Masked(VOL, fake_yang), 21)
        VOL_FAKEYIN21 == rolling_sum(Masked(VOL, fake_yin), 21)
        VOL_FAKEYANG14 == rolling_sum(Masked(VOL, fake_yang), 14)
        VOL_FAKEYIN14 == rolling_sum(Masked(VOL, fake_yin), 14)
        VOL_FAKEYANG10 == rolling_sum(Masked(VOL, fake_yang), 10)
        VOL_FAKEYIN10 == rolling_sum(Masked(VOL, fake_yin), 10)
        yangyin_ok == Tab(n, LAMBDA i :
            \/ GtTimes(VOL_YANG21[i], 15, 10, VOL_YIN21[i])
            \/ GtTimes(VOL_YANG14[i], 15, 10, VOL_YIN14[i])
            \/ GtTimes(VOL_FAKEYANG21[i], 15, 10, VOL_FAKEYIN21[i])
            \/ GtTimes(VOL_FAKEYANG14[i], 15, 10, VOL_FAKEYIN14[i])
            \/ GtTimes(VOL_FAKEYANG10[i], 18, 10, VOL_FAKEYIN10[i]))
        \* A28 = mean(AMOUNT, 28) / 1e8 >= 0.005, i.e. sum >= 28 * 500000
        A28_sum == rolling_sum(AMOUNT, 28)
        lq == Tab(n, LAMBDA i : Ge(A28_sum[i], 28 * 500000))
        mvok == Tab(n, LAMBDA i : TRUE)
        llv_o_28 == rolling_min(O, 28)
        hhv_o_28 == rolling_max(O, 28)
        \* O >= llv + 0.925 * (hhv - llv)
        top15o == Tab(n, LAMBDA i :
            GeTimes(Sub(O[i], llv_o_28[i]), 925, 1000, Sub(hhv_o_28[i], llv_o_28[i])))
        fd15 == Tab(n, LAMBDA i :
            /\ Lt(C[i], REF_C_1[i])
            /\ Le(C[i], O[i])
            /\ GeTimes(VOL[i], 115, 100, REF_VOL_1[i]))
        good28 == LET cnt == rolling_sum(Num(Tab(n, LAMBDA i : top15o[i] /\ fd15[i])), 28)
                  IN  Tab(n, LAMBDA i : Eq(cnt[i], 0))
        maxvol28 == rolling_max(VOL, 28)
        max28_ok ==
            LET cnt == rolling_sum(
                    Num(Tab(n, LAMBDA i : Eq(VOL[i], maxvol28[i]) /\ real_yin[i])), 28)
            IN  Tab(n, LAMBDA i : Eq(cnt[i], 0))
        \* AVG40 = mean(VOL, 40), carried as the sum
        AVG40_sum == rolling_sum(VOL, 40)
        plry == Tab(n, LAMBDA i :
            /\ GtTimes(VOL[i], 18, 10, REF_VOL_1[i])
            /\ Gt(C[i], O[i])
            /\ Gt(Mul(40, VOL[i]), AVG40_sum[i]))
        plry_cnt == LET cnt == rolling_sum(Num(plry), 28)
                    IN  Tab(n, LAMBDA i : Ge(cnt[i], 1))
        V40P_sum == rolling_sum(REF_VOL_1, 40)
        bd == Tab(n, LAMBDA i : Gt(C[i], REF_C_1[i]) /\ Ge(C[i], O[i]))
        \* VOL > 1.75 * V40P
        bigv == Tab(n, LAMBDA i : GtTimes(Mul(40, VOL[i]), 175, 100, V40P_sum[i]))
        llv_c_40 == rolling_min(C, 40)
        hhv_c_40 == rolling_max(C, 40)
        \* C > llv + 0.55 * (hhv - llv)
        posok == Tab(n, LAMBDA i :
            GtTimes(Sub(C[i], llv_c_40[i]), 55, 100, Sub(hhv_c_40[i], llv_c_40[i])))
        trigger == Tab(n, LAMBDA i : plry_cnt[i] \/ (bd[i] /\ bigv[i] /\ posok[i]))
        m == calculate_macd(C, 12, 26, 9)
        macd_ok == Tab(n, LAMBDA i : Gt(m.dif[i], 0))
        xg == Tab(n, LAMBDA i :
            /\ j_ok[i] /\ trigger[i] /\ lq[i] /\ mvok[i]
            /\ max28_ok[i] /\ yangyin_ok[i] /\ macd_ok[i])
    IN  [rows |-> rows, H |-> H, L |-> L, C |-> C, O |-> O, VOL |-> VOL,
         AMOUNT |-> AMOUNT, REF_C_1 |-> REF_C_1,
         RSV |-> kdj.rsv, K |-> kdj.k, D |-> kdj.d, J |-> kdj.j, J_OK |-> j_ok,
         REAL_YANG |-> real_yang, REAL_YIN |-> real_yin,
         FAKE_YANG |-> fake_yang, FAKE_YIN |-> fake_yin,
         YANGYIN_OK |-> yangyin_ok, LQ |-> lq, MVOK |-> mvok,
         FD15 |-> fd15, GOOD28 |-> good28, MAX28_OK |-> max28_ok,
         PLRY |-> plry, BD |-> bd, BIGV |-> bigv, POSOK |-> posok,
         TRIGGER |-> trigger, DIF |-> m.dif, DEA |-> m.dea, MACD_OK |-> macd_ok,
         XG |-> xg]

\* the dict analyze_stock returns for the frame f: the values at the last bar
result_of(f) ==
    LET last == Len(f.rows)
        latest == f.rows[last]
    IN  [date |-> latest.date,
         stock_code |-> "None",
         selected |-> f.XG[last],
         indicators |->
             [J |-> f.J[last],
              J_OK |-> IF ~isna(f.J[last]) THEN f.XG[last] ELSE FALSE,
              TRIGGER |-> f.TRIGGER[last],
              LQ |-> f.LQ[last],
              MAX28_OK |-> f.MAX28_OK[last],
              YANGYIN_OK |-> f.YANGYIN_OK[last],
              MACD_DIF |-> f.DIF[last],
              DIFgt0 |-> IF ~isna(f.DIF[last]) THEN f.MACD_OK[last] ELSE FALSE],
         raw_data |-> latest]

\* insufficient with the bound off by one
insufficient_le(df) == Len(df.rows) <= MinBars

\* line 90
insufficient(df) == Len(df.rows) < MinBars

analyze_stock(df) ==
    IF insufficient(df) THEN None ELSE result_of(indicator_frame(df))

\* ------------------------------------------------------------------------
\* Input Series.  A Series is described by a few parameters and built bar by
\* bar; every bar opens at the previous close.  Counting e = bars before the
\* last one:
\*   - the last p.drop bars fall 0.30 a day on 40000 shares (130000 on the
\*     first of them when p.bigYin);
\*   - before that the price rises 0.10 a day on 60000 shares (120000 on the
\*     bar with e = 10 when p.surge), except that with p.zigzag every bar
\*     with odd e falls 0.05 on 58000 shares;
\*   - a flat Series keeps open = high = low = close = 100 on 1000 shares.
\* p.amount says whether the file has an amount column ("absent") and, if it
\* has, whether its values are above ("high") or below ("low") the liquidity
\* floor; p.order is the order of the rows in the file.
\* ------------------------------------------------------------------------
Falls(p, t) == t >= 1 /\ p.n - 1 - t < p.drop
Dips(p, t) == t >= 1 /\ ~Falls(p, t) /\ p.zigzag /\ (p.n - 1 - t) % 2 = 1
Rises(p, t) == t >= 1 /\ ~Falls(p, t) /\ ~Dips(p, t)

\* the close of bar t: 10.00 plus the moves of the bars 1..t
CloseAt(p, t) ==
    10 * PX + 10 * Cardinality({u \in 1..t : Rises(p, u)})
            - 5 * Cardinality({u \in 1..t : Dips(p, u)})
            - 30 * Cardinality({u \in 1..t : Falls(p, u)})

Bar(p, t) ==
    LET e == p.n - 1 - t
        prev == IF t = 0 THEN 10 * PX ELSE CloseAt(p, t - 1)
        c == CloseAt(p, t)
        amt == CASE p.amount = "high" -> 600000
                 [] p.amount = "low" -> 400000
                 [] OTHER -> NaN
    IN  IF p.shape = "flat"
        THEN [date |-> t, open |-> 100 * PX, high |-> 100 * PX, low |-> 100 * PX,
              close |-> 100 * PX, volume |-> 1000, amount |-> amt]
        ELSE [date |-> t, open |-> prev,
              high |-> IF c > prev THEN c ELSE prev,
              low |-> IF c < prev THEN c ELSE prev,
              close |-> c,
              volume |-> CASE Falls(p, t) ->
                                 IF p.bigYin /\ e = p.drop - 1 THEN 130000 ELSE 40000
                           [] Dips(p, t) -> 58000
                           [] OTHER -> IF p.surge /\ e = 10 THEN 120000 ELSE 60000,
              amount |-> amt]

Bars(p) == Tab(p.n, LAMBDA i : Bar(p, i - 1))

Reverse(xs) == Tab(Len(xs), LAMBDA i : xs[Len(xs) + 1 - i])

RequiredCols == {"date", "open", "close", "high", "low", "volume"}

MakeDf(p) ==
    [columns |-> RequiredCols \cup (IF p.amount = "absent" THEN {} ELSE {"amount"}),
     rows |-> IF p.order = "desc" THEN Reverse(Bars(p)) ELSE Bars(p)]

ExtraBars == 1
Lengths == (MinBars - 1)..(MinBars + ExtraBars)

TrendParams ==
    [shape : {"trend"}, n : Lengths, drop : {0, 3, 10}, surge : BOOLEAN,
     zigzag : BOOLEAN, bigYin : BOOLEAN, amount : {"absent", "high", "low"},
     order : {"asc", "desc"}]
\* the flat Series of the specification's scenario has 70 bars
ScenarioBars == MinBars + 10
FlatParams ==
    [shape : {"flat"}, n : {0, 1, 9, ScenarioBars} \cup Lengths, drop : {0}, surge : {FALSE},
     zigzag : {FALSE}, bigYin : {FALSE}, amount : {"absent"},
     order : {"asc", "desc"}]
SeriesParams == TrendParams \cup FlatParams

\* ------------------------------------------------------------------------
\* Specification of analyze_stock as a function of the Series
\* ------------------------------------------------------------------------
AnaInit ==
    /\ anaIn \in SeriesParams
    /\ anaFrame = None
    /\ anaResult = [pending |-> TRUE]
    /\ SmaIdle /\ RunIdle /\ ScanIdle

Analyze ==
    /\ anaResult = [pending |-> TRUE]
    /\ anaFrame' = IF insufficient(MakeDf(anaIn)) THEN None
                   ELSE indicator_frame(MakeDf(anaIn))
    /\ anaResult' = analyze_stock(MakeDf(anaIn))
    /\ UNCHANGED <<anaIn, smaVars, runVars, scanVars>>

AnaNext == Analyze

SpecAnalyze == AnaInit /\ [][AnaNext]_vars

\* ------------------------------------------------------------------------
\* run_stock_selection
\* ------------------------------------------------------------------------
\* the names the module binds at import (lines 12-16); a name outside it
\* raises NameError where it is used
ModuleNames == {"np", "pd", "os", "glob", "datetime"}

MvFloor == 30
NoReport == [written |-> FALSE]

\* lines 287-293: the snapshot fetch; the bare except turns any error, the
\* NameError for the unbound name ak included, into an empty dict
fetch_spot(prov) ==
    IF "ak" \in ModuleNames /\ prov.up THEN prov.caps ELSE <<>>

\* pd.read_excel: what the file holds
read_excel(input) ==
    [columns |-> IF input.kind = "nocol"
                 THEN MakeDf(input.p).columns \ {"volume"}
                 ELSE MakeDf(input.p).columns,
     rows |-> MakeDf(input.p).rows]

\* lines 319-328: the market-cap check on a result; MV is <<mv>> or <<>> (None)
\* cap_check with a missing market cap counted as a failed floor
cap_check_strict(result, stock_code, spot) ==
    IF stock_code \in DOMAIN spot
    THEN LET mv == spot[stock_code]
         IN  [result EXCEPT
                 !.stock_code = stock_code,
                 !.indicators = [MV |-> <<mv>>, MVOK |-> mv >= MvFloor] @@ @,
                 !.selected = IF mv < MvFloor THEN FALSE ELSE @]
    ELSE [result EXCEPT
             !.stock_code = stock_code,
             !.indicators = [MV |-> <<>>, MVOK |-> FALSE] @@ @,
             !.selected = FALSE]

cap_check(result, stock_code, spot) ==
    IF stock_code \in DOMAIN spot
    THEN LET mv == spot[stock_code]
         IN  [result EXCEPT
                 !.stock_code = stock_code,
                 !.indicators = [MV |-> <<mv>>, MVOK |-> mv >= MvFloor] @@ @,
                 !.selected = IF mv < MvFloor THEN FALSE ELSE @]
    ELSE [result EXCEPT
             !.stock_code = stock_code,
             !.indicators = [MV |-> <<>>, MVOK |-> TRUE] @@ @]

\* the six predicates of the frame at its last bar
LastPreds(f) ==
    LET last == Len(f.rows)
    IN  [J_OK |-> f.J_OK[last], TRIGGER |-> f.TRIGGER[last], LQ |-> f.LQ[last],
         MAX28_OK |-> f.MAX28_OK[last], YANGYIN_OK |-> f.YANGYIN_OK[last],
         MACD_OK |-> f.MACD_OK[last]]

\* lines 299-352: the body of the loop for one file.  outcome is what the
\* loop did with the file; result is the result after the market-cap check
process_file(stock_code, input, spot) ==
    IF input.kind = "unreadable"
    THEN [stock_code |-> stock_code, input |-> input, outcome |-> "error",
          result |-> None, preds |-> None]
    ELSE LET df == read_excel(input)
         IN  IF RequiredCols \ df.columns # {}
             THEN [stock_code |-> stock_code, input |-> input,
                   outcome |-> "skip_missing_cols", result |-> None, preds |-> None]
             ELSE IF insufficient(df)
             THEN [stock_code |-> stock_code, input |-> input,
                   outcome |-> "skip_insufficient", result |-> None, preds |-> None]
             ELSE LET f == indicator_frame(df)
                      result == cap_check(result_of(f), stock_code, spot)
                  IN  [stock_code |-> stock_code, input |-> input,
                       outcome |-> IF result.selected THEN "selected"
                                   ELSE "not_selected",
                       result |-> result, preds |-> LastPreds(f)]

\* append_selected without the test of the selected flag
append_selected_always(selected, done) ==
    IF done.result # None THEN Append(selected, done.result) ELSE selected

\* lines 330-334: a selected result is appended to selected_stocks
append_selected(selected, done) ==
    IF done.outcome = "selected" THEN Append(selected, done.result) ELSE selected

\* lines 350-352: the code of a file that raised is appended to failed_stocks
append_failed(failed, done) ==
    IF done.outcome = "error" THEN Append(failed, done.stock_code) ELSE failed

\* lines 363-374: the rows of the report
report_rows(selected) ==
    Tab(Len(selected), LAMBDA k :
        LET r == selected[k]
        IN  [stock_code |-> r.stock_code, date |-> r.date, J |-> r.indicators.J,
             MACD_DIF |-> r.indicators.MACD_DIF, MV |-> r.indicators.MV,
             close |-> r.raw_data.close, volume |-> r.raw_data.volume])

\* ---- the environment ----------------------------------------------------
MaxFiles == 2
AllCodes == <<"600001", "600002", "600003", "600004">>
Codes == {AllCodes[k] : k \in 1..Len(AllCodes)}

\* the provider is down, or serves a snapshot (caps in hundred millions)
Providers ==
    {[up |-> FALSE, caps |-> <<>>],
     [up |-> TRUE, caps |-> [c \in Codes |-> MvFloor - 1]],
     [up |-> TRUE, caps |-> [c \in {AllCodes[1]} |-> MvFloor]]}

BatchParams ==
    [shape : {"trend"}, n : {MinBars}, drop : {0, 3}, surge : BOOLEAN,
     zigzag : {FALSE}, bigYin : {FALSE}, amount : {"absent"},
     order : {"asc"}]
ShortParams ==
    [shape |-> "trend", n |-> MinBars - 1, drop |-> 3, surge |-> TRUE,
     zigzag |-> FALSE, bigYin |-> FALSE, amount |-> "absent", order |-> "asc"]

FileInputs ==
    {[kind |-> "unreadable", p |-> ShortParams],
     [kind |-> "nocol", p |-> ShortParams],
     [kind |-> "series", p |-> ShortParams]}
    \cup [kind : {"series"}, p : BatchParams]

\* ---- the run ------------------------------------------------------------
RunInit ==
    /\ pc = "start"
    /\ provider \in Providers
    /\ excel_files = <<>>
    /\ spot_dict = <<>>
    /\ visited = 0
    /\ selected_stocks = <<>>
    /\ failed_stocks = <<>>
    /\ console = <<>>
    /\ report = NoReport
    /\ SmaIdle /\ AnaIdle /\ ScanIdle

\* lines 268-283: the directory and the file list; either early return ends
\* the run
Start ==
    /\ pc = "start"
    /\ \E dir_exists \in BOOLEAN, nfiles \in 0..MaxFiles :
          IF dir_exists /\ nfiles > 0
          THEN /\ excel_files' = SubSeq(AllCodes, 1, nfiles)
               /\ pc' = "fetch"
          ELSE /\ excel_files' = <<>>
               /\ pc' = "done"
    /\ UNCHANGED <<provider, spot_dict, visited, selected_stocks, failed_stocks,
                   console, report, smaVars, anaVars,
                   scanVars>>

\* lines 285-293
FetchSpot ==
    /\ pc = "fetch"
    /\ spot_dict' = fetch_spot(provider)
    /\ pc' = "loop"
    /\ UNCHANGED <<provider, excel_files, visited, selected_stocks, failed_stocks,
                   console, report, smaVars, anaVars,
                   scanVars>>

\* one pass of the loop in which a file that raises ends the loop
ProcessFileAbort ==
    /\ pc = "loop"
    /\ visited < Len(excel_files)
    /\ \E input \in FileInputs :
          console' = Append(console,
                            process_file(excel_files[visited + 1], input, spot_dict))
    /\ selected_stocks' = append_selected(selected_stocks, console'[visited + 1])
    /\ failed_stocks' = append_failed(failed_stocks, console'[visited + 1])
    /\ visited' = visited + 1
    /\ pc' = IF console'[visited + 1].outcome = "error" THEN "done" ELSE pc
    /\ UNCHANGED <<provider, excel_files, spot_dict, report, smaVars, anaVars,
                   scanVars>>

\* lines 295-352: one pass of the loop
ProcessFile ==
    /\ pc = "loop"
    /\ visited < Len(excel_files)
    /\ \E input \in FileInputs :
          console' = Append(console,
                            process_file(excel_files[visited + 1], input, spot_dict))
    /\ selected_stocks' = append_selected(selected_stocks, console'[visited + 1])
    /\ failed_stocks' = append_failed(failed_stocks, console'[visited + 1])
    /\ visited' = visited + 1
    /\ UNCHANGED <<pc, provider, excel_files, spot_dict, report, smaVars, anaVars,
                   scanVars>>

\* lines 354-384: the loop has ended; the report is written only if
\* something was selected
Finish ==
    /\ pc = "loop"
    /\ visited = Len(excel_files)
    /\ report' = IF selected_stocks # <<>>
                 THEN [written |-> TRUE, rows |-> report_rows(selected_stocks)]
                 ELSE report
    /\ pc' = "done"
    /\ UNCHANGED <<provider, excel_files, spot_dict, visited, selected_stocks,
                   failed_stocks, console, smaVars, anaVars,
                   scanVars>>

Next == Start \/ FetchSpot \/ ProcessFile \/ Finish

Spec == RunInit /\ [][Next]_vars

\* ------------------------------------------------------------------------
\* Specification of sma as a pure function
\* ------------------------------------------------------------------------
MaxLen == 3
MaxN == 3
SmaVals == {NaN, 0, 10 * FIX, (21 * FIX) \div 2}

RECURSIVE SeqsUpTo(_, _)
SeqsUpTo(S, n) ==
    IF n = 0 THEN {<<>>}
    ELSE LET prev == SeqsUpTo(S, n - 1)
         IN  prev \cup {Append(s, x) : s \in {t \in prev : Len(t) = n - 1}, x \in S}

SmaInit ==
    /\ smaX \in {s \in SeqsUpTo(SmaVals, MaxLen) : Len(s) >= 1}
    /\ smaN \in 1..MaxN
    /\ smaM \in 1..smaN
    /\ smaR = <<>>
    /\ AnaIdle /\ RunIdle /\ ScanIdle

ApplySma ==
    /\ smaR = <<>>
    /\ smaR' = sma(smaX, smaN, smaM)
    /\ UNCHANGED <<smaX, smaN, smaM, anaVars, runVars, scanVars>>

SmaNext == ApplySma

SpecSma == SmaInit /\ [][SmaNext]_vars

\* ------------------------------------------------------------------------
\* sma in binary floating point.  result is a float Series (line 30), so
\* every product, sum and quotient of line 37 is rounded to the nearest
\* float, ties to even.  Here a float has MantBits significant bits and a
\* value is counted in units of the last place of the inputs, which lie in
\* one binade, 2^(MantBits-1) <= x < 2^MantBits; every intermediate value is
\* zero or at least 2^(MantBits-1), so it is a whole number of units.
\* ------------------------------------------------------------------------
MantBits == 4

\* num / den rounded to MantBits significant bits, ties to even
RoundFloat(num, den) ==
    IF num = 0 THEN 0
    ELSE LET k == CHOOSE e \in 0..MantBits :
                      /\ 2^(MantBits - 1 + e) * den <= num
                      /\ num < 2^(MantBits + e) * den
             d == den * 2^k
             f == num \div d
             r == num % d
         IN  (IF 2 * r > d \/ (2 * r = d /\ f % 2 = 1) THEN f + 1 ELSE f) * 2^k

FMul(a, b) == IF isna(a) \/ isna(b) THEN NaN ELSE RoundFloat(a * b, 1)
FAdd(a, b) == IF isna(a) \/ isna(b) THEN NaN ELSE RoundFloat(a + b, 1)
FDiv(a, b) == IF isna(a) \/ isna(b) THEN NaN ELSE RoundFloat(a, b)

\* smaStepFloat with the two weights exchanged
smaStepFloatSwapped(series, n, m, result) ==
    LET i == Len(result) + 1
    IN  Append(result,
            IF isna(result[i - 1])
            THEN series[i]
            ELSE FDiv(FAdd(FMul(n - m, series[i]), FMul(m, result[i - 1])), n))

\* lines 34-37 in floating point
smaStepFloat(series, n, m, result) ==
    LET i == Len(result) + 1
    IN  Append(result,
            IF isna(result[i - 1])
            THEN series[i]
            ELSE FDiv(FAdd(FMul(m, series[i]), FMul(n - m, result[i - 1])), n))

RECURSIVE smaLoopFloat(_, _, _, _, _)
smaLoopFloat(series, n, m, result, hi) ==
    IF Len(result) >= hi THEN result
    ELSE smaLoopFloat(series, n, m, smaStepFloat(series, n, m, result), hi)

smaFloat(series, n, m) == smaLoopFloat(series, n, m, <<series[1]>>, Len(series))

FloatVals == {NaN} \cup (2^(MantBits - 1))..(2^MantBits - 1)

SmaFloatInit ==
    /\ smaX \in {s \in SeqsUpTo(FloatVals, MaxLen) : Len(s) >= 1}
    /\ smaN \in 1..MaxN
    /\ smaM \in 1..smaN
    /\ smaR = <<>>
    /\ AnaIdle /\ RunIdle /\ ScanIdle

ApplySmaFloat ==
    /\ smaR = <<>>
    /\ smaR' = smaFloat(smaX, smaN, smaM)
    /\ UNCHANGED <<smaX, smaN, smaM, anaVars, runVars, scanVars>>

SmaFloatNext == ApplySmaFloat

SpecSmaFloat == SmaFloatInit /\ [][SmaFloatNext]_vars

\* ------------------------------------------------------------------------
\* The scan service (src/scan0202.py).  A task id is the time stamp of the
\* second in which POST /scan was served; the files of SCAN_RESULTS_DIR are
\* the only state shared by the threads and the status endpoint.
\* ------------------------------------------------------------------------
MaxTasks == 2
MaxClock == 2

\* the JSON bodies of POST /scan
ScanRequests ==
    [ips : {"missing", "bad", "ok"}, ports : {"bad", "ok"},
     options : {"", "-Pn", "nonstring"}]

\* the task ids a client may ask about: well-formed stamps, or anything else
StatusQueries ==
    [wellformed : {TRUE}, stamp : 1..MaxClock] \cup {[wellformed |-> FALSE, stamp |-> 0]}

\* lines 94-110: the checks of start_scan
request_valid(req) == req.ips = "ok" /\ req.ports = "ok"

\* lines 16-18
generate_timestamp == scanNow

\* lines 136-175
check_status(task_id, done, xml) ==
    IF ~task_id.wellformed
    THEN [route |-> "status", code |-> 400, status |-> "error", task_id |-> 0]
    ELSE IF task_id.stamp \in done
    THEN [route |-> "status", code |-> 200, status |-> "completed",
          task_id |-> task_id.stamp]
    ELSE IF task_id.stamp \in xml
    THEN [route |-> "status", code |-> 200, status |-> "running",
          task_id |-> task_id.stamp]
    ELSE [route |-> "status", code |-> 404, status |-> "not_found",
          task_id |-> task_id.stamp]

ScanInit ==
    /\ scanNow = 1
    /\ scanThreads = <<>>
    /\ xml_files = {}
    /\ done_files = {}
    /\ scanAccepted = {}
    /\ scanReply = [route |-> "none", code |-> 0, status |-> "none", task_id |-> 0]
    /\ SmaIdle /\ AnaIdle /\ RunIdle

\* the clock of generate_timestamp moves on
Tick ==
    /\ scanNow < MaxClock
    /\ scanNow' = scanNow + 1
    /\ UNCHANGED <<scanThreads, xml_files, done_files, scanAccepted, scanReply,
                   smaVars, anaVars, runVars>>

\* lines 82-133: POST /scan
PostScan ==
    /\ Len(scanThreads) < MaxTasks
    /\ \E req \in ScanRequests :
          IF request_valid(req)
          THEN /\ scanThreads' = Append(scanThreads,
                      [task_id |-> generate_timestamp, options |-> req.options,
                       pc |-> "start", result |-> "none"])
               /\ scanAccepted' = scanAccepted \cup {generate_timestamp}
               /\ scanReply' = [route |-> "scan", code |-> 200, status |-> "started",
                                task_id |-> generate_timestamp]
          ELSE /\ scanReply' = [route |-> "scan", code |-> 400, status |-> "error",
                                task_id |-> 0]
               /\ UNCHANGED <<scanThreads, scanAccepted>>
    /\ UNCHANGED <<scanNow, xml_files, done_files, smaVars, anaVars, runVars>>

\* lines 23-35: the thread builds cmd and calls subprocess.run; options that
\* are not a string raise at line 30, outside the try, and end the thread
BuildCmd(k) ==
    /\ k \in 1..Len(scanThreads)
    /\ scanThreads[k].pc = "start"
    /\ scanThreads' = [scanThreads EXCEPT ![k].pc =
                          IF scanThreads[k].options = "nonstring"
                          THEN "crashed" ELSE "nmap"]
    /\ UNCHANGED <<scanNow, xml_files, done_files, scanAccepted, scanReply,
                   smaVars, anaVars, runVars>>

\* nmap -oX creates <task_id>.xml while it runs
NmapWritesXml(k) ==
    /\ k \in 1..Len(scanThreads)
    /\ scanThreads[k].pc = "nmap"
    /\ scanThreads[k].task_id \notin xml_files
    /\ xml_files' = xml_files \cup {scanThreads[k].task_id}
    /\ UNCHANGED <<scanNow, scanThreads, done_files, scanAccepted, scanReply,
                   smaVars, anaVars, runVars>>

\* lines 35-39: subprocess.run returns, with any return code; the done file
\* is written
NmapReturns(k) ==
    /\ k \in 1..Len(scanThreads)
    /\ scanThreads[k].pc = "nmap"
    /\ \E returncode \in {0, 1} :
          scanThreads' = [scanThreads EXCEPT ![k].pc = "returned",
                             ![k].result = IF returncode = 0 THEN "True" ELSE "False"]
    /\ done_files' = done_files \cup {scanThreads[k].task_id}
    /\ UNCHANGED <<scanNow, xml_files, scanAccepted, scanReply,
                   smaVars, anaVars, runVars>>

\* lines 35, 40-42: subprocess.run raises (TimeoutExpired after 300 s, or
\* OSError when nmap cannot be started); the handler returns False
NmapRaises(k) ==
    /\ k \in 1..Len(scanThreads)
    /\ scanThreads[k].pc = "nmap"
    /\ scanThreads' = [scanThreads EXCEPT ![k].pc = "returned", ![k].result = "False"]
    /\ UNCHANGED <<scanNow, xml_files, done_files, scanAccepted, scanReply,
                   smaVars, anaVars, runVars>>

\* lines 136-175: GET /scan/status/<task_id>
GetStatus ==
    /\ \E task_id \in StatusQueries :
          scanReply' = check_status(task_id, done_files, xml_files)
    /\ UNCHANGED <<scanNow, scanThreads, xml_files, done_files, scanAccepted,
                   smaVars, anaVars, runVars>>

ScanNext ==
    \/ Tick
    \/ PostScan
    \/ \E k \in 1..MaxTasks : BuildCmd(k)
    \/ \E k \in 1..MaxTasks : NmapWritesXml(k)
    \/ \E k \in 1..MaxTasks : NmapReturns(k)
    \/ \E k \in 1..MaxTasks : NmapRaises(k)
    \/ GetStatus

\* a started thread runs, subprocess.run ends within its timeout one way or
\* the other, and the client keeps polling
ScanFairness ==
    /\ \A k \in 1..MaxTasks : WF_vars(BuildCmd(k))
    /\ \A k \in 1..MaxTasks : WF_vars(NmapReturns(k) \/ NmapRaises(k))
    /\ WF_vars(GetStatus)

SpecScan == ScanInit /\ [][ScanNext]_vars /\ ScanFairness

\* ------------------------------------------------------------------------
\* Properties
\* ------------------------------------------------------------------------
Analysed == anaResult # [pending |-> TRUE] /\ anaResult # [idle |-> TRUE]
Max(S) == CHOOSE x \in S : \A y \in S : x >= y
Min(S) == CHOOSE x \in S : \A y \in S : x <= y

\* C2: analyze_stock returns None for every Series of fewer than 60 bars and
\* one result for every Series of 60 bars or more; a Series of 59 bars gives
\* None and the same Series with one more valid bar gives a result.
OneMoreBar(df) ==
    LET last == Bars(anaIn)[Len(df.rows)]
    IN  [df EXCEPT !.rows = Append(@,
            [last EXCEPT !.date = last.date + 1, !.open = last.close,
                         !.high = last.close, !.low = last.close])]

C2_ResultIffSixtyBars ==
    Analysed =>
        /\ anaIn.n < MinBars => anaResult = None
        /\ anaIn.n >= MinBars =>
              /\ anaResult # None
              /\ anaResult.date = anaIn.n - 1
              /\ anaResult.selected \in BOOLEAN
        /\ anaIn.n = MinBars - 1 =>
              /\ anaResult = None
              /\ analyze_stock(OneMoreBar(MakeDf(anaIn))) # None
              /\ analyze_stock(OneMoreBar(MakeDf(anaIn))).date = MinBars - 1

C2_Witness ==
    /\ Analysed /\ anaIn.n = MinBars - 1 /\ anaResult = None
    /\ analyze_stock(OneMoreBar(MakeDf(anaIn))).selected

C2_WitnessSixty ==
    Analysed /\ anaIn.n = MinBars /\ anaResult # None /\ anaResult.selected

\* C3: sma(X, N, M) has the length of X, R[0] = X[0], and for i >= 1
\* R[i] = X[i] when R[i-1] is undefined and (M X[i] + (N - M) R[i-1]) / N
\* otherwise; X = [10, 10.5], N = 3, M = 1 gives [10, 30.5 / 3].
C3_SmaRecurrence ==
    smaR # <<>> =>
        /\ Len(smaR) = Len(smaX)
        /\ smaR[1] = smaX[1]
        /\ \A i \in 2..Len(smaX) :
              smaR[i] = IF smaR[i - 1] = NaN THEN smaX[i]
                        ELSE IF smaX[i] = NaN THEN NaN
                        ELSE (smaM * smaX[i] + (smaN - smaM) * smaR[i - 1]) \div smaN
        /\ (smaX = <<10 * FIX, (21 * FIX) \div 2>> /\ smaN = 3 /\ smaM = 1)
              => smaR = <<10 * FIX, (61 * FIX) \div 6>>

C3_Witness ==
    /\ smaX = <<10 * FIX, (21 * FIX) \div 2>> /\ smaN = 3 /\ smaM = 1
    /\ smaR = <<10000, 10166>>

C3_WitnessReseed ==
    /\ Len(smaX) = 3 /\ smaX[1] = NaN /\ smaX[2] = 10 * FIX /\ smaX[3] = 0
    /\ smaN = 3 /\ smaM = 1
    /\ smaR = <<NaN, 10 * FIX, (20 * FIX) \div 3>>

\* C4: RSV at bar i is undefined for i < 8; for i >= 8 it is 50 when the
\* 9-bar max of high equals the 9-bar min of low and otherwise
\* (close - min low) / (max high - min low) * 100; the fallback 50 is not
\* produced while the window is not full.
C4_RawValue ==
    (Analysed /\ anaFrame # None) =>
        \A i \in 1..Len(anaFrame.rows) :
            IF i < 9 THEN anaFrame.RSV[i] = NaN
            ELSE LET hi == Max({anaFrame.rows[k].high : k \in (i - 8)..i})
                     lo == Min({anaFrame.rows[k].low : k \in (i - 8)..i})
                 IN  IF hi = lo THEN anaFrame.RSV[i] = 50 * FIX
                     ELSE anaFrame.RSV[i] =
                              ((anaFrame.rows[i].close - lo) * 100 * FIX) \div (hi - lo)

C4_Witness ==
    /\ Analysed /\ anaFrame # None
    /\ anaFrame.RSV[8] = NaN
    /\ anaFrame.RSV[9] = 50 * FIX
    /\ anaFrame.rows[9].high = anaFrame.rows[1].low

C4_WitnessRange ==
    /\ Analysed /\ anaFrame # None
    /\ anaFrame.RSV[1] = NaN
    /\ anaFrame.RSV[Len(anaFrame.rows)] = 0
    /\ anaFrame.RSV[9] = 100 * FIX

\* C7: every entry of the indicators map of a result equals the predicate it
\* is named after at the final bar; indicators.J_OK is true exactly when J
\* at the final bar is defined and J <= 13, whatever the other predicates.
C7_IndicatorsArePredicates ==
    (Analysed /\ anaFrame # None) =>
        LET last == Len(anaFrame.rows)
            ind == anaResult.indicators
        IN  /\ ind.J = anaFrame.J[last]
            /\ ind.J_OK = (anaFrame.J[last] # NaN /\ anaFrame.J[last] <= 13 * FIX)
            /\ ind.TRIGGER = anaFrame.TRIGGER[last]
            /\ ind.LQ = anaFrame.LQ[last]
            /\ ind.MAX28_OK = anaFrame.MAX28_OK[last]
            /\ ind.YANGYIN_OK = anaFrame.YANGYIN_OK[last]
            /\ ind.MACD_DIF = anaFrame.DIF[last]
            /\ ind.DIFgt0 = anaFrame.MACD_OK[last]

\* the entries other than J_OK do equal their predicates
C7_OtherEntries ==
    (Analysed /\ anaFrame # None) =>
        LET last == Len(anaFrame.rows)
            ind == anaResult.indicators
        IN  /\ ind.J = anaFrame.J[last]
            /\ ind.TRIGGER = anaFrame.TRIGGER[last]
            /\ ind.LQ = anaFrame.LQ[last]
            /\ ind.MAX28_OK = anaFrame.MAX28_OK[last]
            /\ ind.YANGYIN_OK = anaFrame.YANGYIN_OK[last]
            /\ ind.MACD_DIF = anaFrame.DIF[last]
            /\ ind.DIFgt0 = anaFrame.MACD_OK[last]
            /\ ind.J_OK = anaResult.selected

\* C8: every boolean predicate is false at a bar where one of its numeric
\* operands is undefined: the previous close for the candle labels,
\* SelloffFlag and the breakout bar, J for J_OK, DIF for MACD_OK.
C8_UndefinedIsFalse ==
    (Analysed /\ anaFrame # None) =>
        \A i \in 1..Len(anaFrame.rows) :
            /\ anaFrame.REF_C_1[i] = NaN =>
                  /\ ~anaFrame.REAL_YANG[i] /\ ~anaFrame.REAL_YIN[i]
                  /\ ~anaFrame.FAKE_YANG[i] /\ ~anaFrame.FAKE_YIN[i]
                  /\ ~anaFrame.FD15[i] /\ ~anaFrame.BD[i]
            /\ anaFrame.J[i] = NaN => ~anaFrame.J_OK[i]
            /\ anaFrame.DIF[i] = NaN => ~anaFrame.MACD_OK[i]

\* the predicates that compare directly do resolve to false
C8_ComparisonsAreFalse ==
    (Analysed /\ anaFrame # None) =>
        \A i \in 1..Len(anaFrame.rows) :
            /\ anaFrame.REF_C_1[i] = NaN => (~anaFrame.FD15[i] /\ ~anaFrame.BD[i])
            /\ anaFrame.J[i] = NaN => ~anaFrame.J_OK[i]
            /\ i < 28 => (~anaFrame.LQ[i] /\ ~anaFrame.MAX28_OK[i] /\ ~anaFrame.GOOD28[i])
            /\ i < 10 => ~anaFrame.YANGYIN_OK[i]

\* ---- run_stock_selection -------------------------------------------------
Entries == {k \in 1..Len(console) : console[k].result # None}
SixPredicates(e) ==
    /\ e.preds.J_OK /\ e.preds.TRIGGER /\ e.preds.LQ
    /\ e.preds.MAX28_OK /\ e.preds.YANGYIN_OK /\ e.preds.MACD_OK
\* the provider's snapshot has a market cap for the code
Quoted(code) == provider.up /\ code \in DOMAIN provider.caps
\* the floor of the specification: at least 30 when the cap is known
MarketCapFloor(code) == Quoted(code) => provider.caps[code] >= MvFloor

\* C1: the final selected flag of an instrument with at least 60 bars is true
\* iff J_OK, Trigger, Liquidity, MarketCapFloor, PeakVolume_OK,
\* VolumeBalance_OK and MACD_OK all hold at the final bar.
C1_SelectedIffSeven ==
    \A k \in Entries :
        console[k].result.selected
            <=> (SixPredicates(console[k]) /\ MarketCapFloor(console[k].stock_code))

\* with the market-cap floor as the batch recorded it, the conjunction holds
C1_SelectedIffRecorded ==
    \A k \in Entries :
        /\ console[k].result.selected
              <=> (SixPredicates(console[k]) /\ console[k].result.indicators.MVOK)
        /\ ~console[k].preds.TRIGGER => ~console[k].result.selected

\* C5: an instrument whose market cap in the provider's snapshot is below 30
\* is never appended to the selected list.
C5_SmallCapNeverSelected ==
    \A k \in 1..Len(selected_stocks) :
        Quoted(selected_stocks[k].stock_code)
            => provider.caps[selected_stocks[k].stock_code] >= MvFloor

\* C6: when the snapshot fetch fails or has no entry for an instrument, MVOK
\* is recorded true and MV none, the selected flag is the conjunction of the
\* other six predicates, and the instrument is not counted as failed.
C6_MissingCapPasses ==
    \A k \in Entries :
        console[k].stock_code \notin DOMAIN spot_dict =>
            /\ console[k].result.indicators.MVOK = TRUE
            /\ console[k].result.indicators.MV = <<>>
            /\ console[k].result.selected = SixPredicates(console[k])
            /\ console[k].outcome \in {"selected", "not_selected"}
            /\ \A j \in 1..Len(failed_stocks) : failed_stocks[j] # console[k].stock_code
            /\ visited = Len(console)

C6_Witness ==
    /\ ~provider.up
    /\ \E k \in Entries :
          /\ console[k].stock_code \notin DOMAIN spot_dict
          /\ console[k].result.selected
    /\ \E k \in Entries : ~console[k].result.selected
    /\ pc = "done"

C6_WitnessNoEntry ==
    /\ provider.up
    /\ \E k \in Entries :
          /\ ~Quoted(console[k].stock_code)
          /\ console[k].result.selected

\* C9: a file that raises, lacks a required column or has too little history
\* never ends the loop: it is recorded as failed or skipped, every later file
\* is still processed, and each file is visited exactly once.
C9_BatchNeverAborts ==
    /\ Len(console) = visited
    /\ visited <= Len(excel_files)
    /\ \A k \in 1..Len(console) :
          /\ console[k].stock_code = excel_files[k]
          /\ console[k].input.kind = "unreadable" =>
                /\ console[k].outcome = "error"
                /\ \E j \in 1..Len(failed_stocks) : failed_stocks[j] = excel_files[k]
          /\ console[k].input.kind = "nocol" => console[k].outcome = "skip_missing_cols"
          /\ (console[k].input.kind = "series" /\ console[k].input.p.n < MinBars)
                => console[k].outcome = "skip_insufficient"
          /\ console[k].outcome \in {"error", "skip_missing_cols", "skip_insufficient"}
                => console[k].result = None
    /\ Len(failed_stocks) =
          Cardinality({k \in 1..Len(console) : console[k].outcome = "error"})
    /\ pc = "loop" => (visited < Len(excel_files) => ENABLED ProcessFile)
    /\ (pc = "done" /\ excel_files # <<>>) => visited = Len(excel_files)

C9_Witness ==
    /\ pc = "done"
    /\ Len(excel_files) = 2
    /\ console[1].outcome = "error"
    /\ console[2].outcome = "selected"

C9_WitnessSkip ==
    /\ pc = "done"
    /\ Len(excel_files) = 2
    /\ console[1].outcome = "skip_insufficient"
    /\ console[2].outcome = "skip_missing_cols"

\* C10: at the end of the run the report has exactly one row for each
\* instrument whose final selected flag is true, and no other row.
C10_ReportRows ==
    pc = "done" /\ excel_files # <<>> =>
        LET chosen == {k \in Entries : console[k].result.selected}
        IN  IF chosen = {}
            THEN report = NoReport
            ELSE /\ report.written
                 /\ Len(report.rows) = Cardinality(chosen)
                 /\ \A k \in chosen :
                       Cardinality({j \in 1..Len(report.rows) :
                           report.rows[j].stock_code = console[k].stock_code}) = 1
                 /\ \A j \in 1..Len(report.rows) :
                       \E k \in chosen :
                           /\ report.rows[j].stock_code = console[k].stock_code
                           /\ report.rows[j].date = console[k].result.date

C10_Witness ==
    /\ pc = "done"
    /\ Len(excel_files) = 2
    /\ console[1].outcome = "not_selected"
    /\ console[2].outcome = "selected"
    /\ report.written /\ Len(report.rows) = 1
    /\ report.rows[1].stock_code = excel_files[2]

C10_WitnessNone ==
    /\ pc = "done"
    /\ Len(excel_files) = 2
    /\ console[1].outcome = "error"
    /\ console[2].outcome = "not_selected"
    /\ report = NoReport

\* C11: sma has no lookahead: for every k with 1 <= k <= len(X), sma of the
\* first k values of X equals the first k values of sma(X, N, M).
C11_NoLookahead ==
    smaR # <<>> =>
        \A k \in 1..Len(smaX) :
            sma(SubSeq(smaX, 1, k), smaN, smaM) = SubSeq(smaR, 1, k)

C11_Witness ==
    /\ Len(smaX) = 3 /\ smaN = 3 /\ smaM = 1
    /\ smaX[1] = 10 * FIX /\ smaX[2] = 0 /\ smaX[3] = (21 * FIX) \div 2
    /\ smaR # <<>>
    /\ smaR[3] # smaX[3]
    /\ sma(SubSeq(smaX, 1, 2), smaN, smaM) = <<smaR[1], smaR[2]>>

\* C12: with M = N, sma(X, N, M) returns R with R[i] = X[i] at every index,
\* also at the indices that follow an undefined value.
C12_Identity ==
    (smaR # <<>> /\ smaM = smaN) => smaR = smaX

\* C12 as amended: with M = N, R[0] = X[0], R[i] is undefined where X[i] is,
\* R[i] = X[i] after an undefined value and whenever N is a power of two, and
\* otherwise R[i] is within one unit in the last place of X[i].
IsPowerOfTwo(n) == \E e \in 0..n : n = 2^e

C12_IdentityUpToRounding ==
    (smaR # <<>> /\ smaM = smaN) =>
        /\ Len(smaR) = Len(smaX)
        /\ smaR[1] = smaX[1]
        /\ \A i \in 2..Len(smaX) :
              IF smaX[i] = NaN \/ smaR[i - 1] = NaN \/ IsPowerOfTwo(smaN)
              THEN smaR[i] = smaX[i]
              ELSE /\ smaR[i] # NaN
                   /\ smaR[i] - smaX[i] \in {-1, 0, 1}
                   /\ smaR[i] = RoundFloat(RoundFloat(smaN * smaX[i], 1), smaN)

C12_Witness ==
    /\ smaN = 3 /\ smaM = 3
    /\ Len(smaX) = 3
    /\ smaX[1] = NaN
    /\ smaX[2] = smaX[3] /\ smaX[2] # NaN
    /\ smaR # <<>>
    /\ smaR[2] = smaX[2]
    /\ smaR[3] # smaX[3]

\* C13: for 70 bars with open = high = low = close = 100 and volume 1000,
\* RawValue = K = D = J = 50 at every bar from index 8 on (the smoothers seed
\* at the first defined RawValue), J_OK is false at the final bar and
\* analyze_stock returns selected = false.
FlatScenario ==
    /\ Analysed
    /\ anaIn.shape = "flat" /\ anaIn.n = ScenarioBars
    /\ anaFrame # None
    /\ Len(anaFrame.rows) = MinBars + 10
    /\ \A i \in 1..Len(anaFrame.rows) :
          /\ anaFrame.rows[i].open = 100 * PX /\ anaFrame.rows[i].high = 100 * PX
          /\ anaFrame.rows[i].low = 100 * PX /\ anaFrame.rows[i].close = 100 * PX
          /\ anaFrame.rows[i].volume = 1000

C13_FlatSeries ==
    (Analysed /\ anaIn.shape = "flat" /\ anaIn.n = ScenarioBars) =>
        /\ FlatScenario
        /\ \A i \in 1..8 :
              /\ anaFrame.RSV[i] = NaN /\ anaFrame.K[i] = NaN
              /\ anaFrame.D[i] = NaN /\ anaFrame.J[i] = NaN
        /\ \A i \in 9..Len(anaFrame.rows) :
              /\ anaFrame.RSV[i] = 50 * FIX /\ anaFrame.K[i] = 50 * FIX
              /\ anaFrame.D[i] = 50 * FIX /\ anaFrame.J[i] = 50 * FIX
        /\ ~anaFrame.J_OK[Len(anaFrame.rows)]
        /\ anaResult # None
        /\ anaResult.selected = FALSE
        /\ anaResult.indicators.J = 50 * FIX

C13_Witness ==
    /\ FlatScenario
    /\ anaFrame.K[8] = NaN /\ anaFrame.K[9] = 50 * FIX
    /\ anaFrame.J[Len(anaFrame.rows)] = 50 * FIX
    /\ anaResult.selected = FALSE

\* C14: every task accepted by POST /scan eventually reaches the state in
\* which GET /scan/status/<task_id> returns 'completed', also when the nmap
\* run fails, times out or raises.
StatusOf(stamp) ==
    check_status([wellformed |-> TRUE, stamp |-> stamp], done_files, xml_files).status

C14_EventuallyCompleted ==
    \A stamp \in 1..MaxClock :
        (stamp \in scanAccepted) ~> (StatusOf(stamp) = "completed")

\* a task whose nmap run returned, with any return code, is completed
C14_ReturnedIsCompleted ==
    \A k \in 1..Len(scanThreads) :
        (scanThreads[k].pc = "returned" /\ scanThreads[k].result = "True")
            => StatusOf(scanThreads[k].task_id) = "completed"

\* a task whose only thread raised is never completed
C14_Stuck ==
    /\ Len(scanThreads) = 1
    /\ scanThreads[1].pc = "returned" /\ scanThreads[1].result = "False"
    /\ scanThreads[1].task_id \in scanAccepted
    /\ StatusOf(scanThreads[1].task_id) = "running"
    /\ scanReply.route = "status" /\ scanReply.status = "running"

====
